---- MODULE Spec2Model ----
(***************************************************************************)
(* Model of smart-book-app: the Dashboard's bookmark synchronisation       *)
(* (src/src/app/login/page.js), the middleware's session gate              *)
(* (src/src/lib/supabase/middleware.js) and the OAuth callback route       *)
(* (src/unnamed/part_000), together with the parts of the datastore and    *)
(* of the identity provider that these handlers talk to.                   *)
(*                                                                         *)
(* Strings that the code inspects (trim, startsWith) are sequences of      *)
(* one-character strings.  JavaScript null/undefined is the value Null.    *)
(***************************************************************************)
EXTENDS Integers, Sequences, FiniteSets, TLC

\* ------------------------------------------------------------------------
\* Bounds of the model
\* ------------------------------------------------------------------------
\* rows the datastore creates in one behaviour
MaxRecords == 2
\* requests (insert, delete) one tab has outstanding at a time
MaxInflight == 1
\* times the provider client stores cookies (setAll) during one request
MaxSetAll == 2
MaxHops == 3
MaxSignOuts == 1

\* ------------------------------------------------------------------------
\* Values
\* ------------------------------------------------------------------------
Null == "null"
\* a null array-valued result; an array result a is <<a>>
NoData == <<>>
\* the Identity of the signed-in user (auth.uid())
Owner == "u1"
\* browser tabs showing the Dashboard
Tabs == {1, 2}
\* the tab whose Dashboard the specification Spec runs
ThisTab == 1
\* A string is a sequence of characters.  A character that has no escape
\* in a string of this language is named by its code point.
\* WhiteSpace of ECMAScript beyond space, tab and form feed: U+000B,
\* U+00A0, U+FEFF and the other space separators (Zs)
UnicodeWhiteSpace ==
    {"U+000B", "U+00A0", "U+FEFF", "U+1680",
     "U+2000", "U+2001", "U+2002", "U+2003", "U+2004", "U+2005", "U+2006",
     "U+2007", "U+2008", "U+2009", "U+200A", "U+202F", "U+205F", "U+3000"}
\* LineTerminator of ECMAScript beyond line feed and carriage return
UnicodeLineTerminators == {"U+2028", "U+2029"}
\* the characters that String.prototype.trim removes: WhiteSpace and
\* LineTerminator
Whitespace ==
    {" ", "\t", "\f", "\n", "\r"}
        \cup UnicodeWhiteSpace \cup UnicodeLineTerminators
\* a field of characters that look blank and that trim keeps: zero width
\* space and next line
BlankLooking == <<"U+200B", "U+0085">>
\* what the form fields can hold when the form is submitted
FieldInputs ==
    {<<>>, <<" ">>, <<"\t", "U+00A0">>, <<"U+000B", "a", "\n">>}
\* the same, over every character that trim removes, and the characters
\* it keeps
FormInputs ==
    FieldInputs
        \cup {<<w>> : w \in Whitespace}
        \cup {<<w, "a", w>> : w \in Whitespace}
        \cup {BlankLooking}
\* form contents: those over FieldInputs, and those in which one field runs
\* over FormInputs beside a field that is not blank
FormContents ==
    (FieldInputs \X FieldInputs)
        \cup (FormInputs \X {<<"a">>}) \cup ({<<"a">>} \X FormInputs)

VARIABLES
    \* ---- Dashboard, one per tab (page.js 80-210) ----
    mounted,     \* "rendered" (first render done), "mounted" (effect has run)
    user,        \* useState(null)         page.js:83
    bookmarks,   \* useState([])           page.js:84
    loading,     \* useState(true)         page.js:87
    pc,          \* position of the async getUser of the mount effect
    fetchUser,   \* const user of getUser (data.user), read by the select
    fetchReply,  \* reply of the initial select, not yet consumed
    subscribed,  \* the realtime channel is joined
    feed,        \* realtime events pushed to the tab, oldest first
    addReqs,     \* insert requests the datastore has not handled yet
    addReplies,  \* insert replies the tab has not consumed yet
    delReqs,     \* delete requests the datastore has not handled yet
    delReplies,  \* delete replies the tab has not consumed yet
    out,         \* what the handler that ran last wrote (console, alert)
    signOut,     \* the calls of handleSignOut that have not ended, counted
                 \* by how far they are: "sent", "returned" or "rejected"
    href,        \* what the page has assigned to window.location.href
    \* ---- browser and datastore ----
    session,     \* the signed-in Identity of the browser, or Null
    db,          \* rows of public.bookmarks
    clock,       \* the datastore's now(); also numbers the rows
    \* ---- process.env ----
    envUrl,      \* NEXT_PUBLIC_SUPABASE_URL
    envKey,      \* NEXT_PUBLIC_SUPABASE_ANON_KEY
    \* ---- one request through updateSession (middleware.js) ----
    gPc,         \* "start", "getUser" (awaiting auth.getUser), "done", "threw"
    gPath,       \* request.nextUrl.pathname
    gSession,    \* what the provider makes of the request's token cookies
    gReqCookies, \* request.cookies
    gResponse,   \* let supabaseResponse
    gReturned,   \* the response updateSession returned
    gWarned,     \* console.warn was called
    gContacted,  \* the provider client was created and asked for the user
    gSetAlls,    \* calls of cookies.setAll so far
    gHops,       \* redirects of the gate the browser has followed
    \* ---- one request to the callback route GET (part_000) ----
    cbPc,        \* "start", "cookies" (createClient awaiting cookies()),
                 \* "client" / "noClient" (GET awaiting createClient, which
                 \* returned a client / null), "exchange" (awaiting the
                 \* exchange), "done", "threw"
    cbCode,      \* searchParams.get("code")
    cbExchanges, \* calls of exchangeCodeForSession
    cbSession,   \* the Session the exchange established, or Null
    cbReturned,  \* the responses GET returned, in order
    cbWarned     \* console.warn was called by createClient

dashVars == <<mounted, user, bookmarks, loading, pc, fetchReply, subscribed,
              feed, addReqs, addReplies, delReqs, delReplies, out,
              signOut, fetchUser, href>>
envVars == <<session, db, clock>>
cfgVars == <<envUrl, envKey>>
gateVars == <<gPc, gPath, gSession, gReqCookies, gResponse, gReturned,
              gWarned, gContacted, gSetAlls, gHops>>
cbVars == <<cbPc, cbCode, cbExchanges, cbSession, cbReturned, cbWarned>>
webVars == <<cfgVars, gateVars, cbVars>>
vars == <<dashVars, envVars, webVars>>

\* ------------------------------------------------------------------------
\* Pure helpers
\* ------------------------------------------------------------------------
RECURSIVE TrimStart(_)
TrimStart(s) ==
    IF s # <<>> /\ Head(s) \in Whitespace THEN TrimStart(Tail(s)) ELSE s

RECURSIVE TrimEnd(_)
TrimEnd(s) ==
    IF s # <<>> /\ s[Len(s)] \in Whitespace
    THEN TrimEnd(SubSeq(s, 1, Len(s) - 1))
    ELSE s

\* String.prototype.trim
Trim(s) == TrimEnd(TrimStart(s))

\* prev.some((b) => b.id === id)
SomeId(prev, id) == \E i \in 1..Len(prev) : prev[i].id = id

\* prev.filter((b) => b.id !== id)
FilterOutId(prev, id) == SelectSeq(prev, LAMBDA b : b.id # id)

Remove(s, i) == SubSeq(s, 1, i - 1) \o SubSeq(s, i + 1, Len(s))

\* .order("created_at", { ascending: false }) over a set of rows
RECURSIVE OrderDesc(_)
OrderDesc(S) ==
    IF S = {} THEN <<>>
    ELSE LET m == CHOOSE r \in S : \A q \in S : q.created_at <= r.created_at
         IN <<m>> \o OrderDesc(S \ {m})

\* data || []
OrEmpty(data) == IF data = NoData THEN <<>> ELSE data[1]

\* ------------------------------------------------------------------------
\* State updaters of the Dashboard
\* ------------------------------------------------------------------------
\* the INSERT handler putting the new entry at the end of the list
InsertHandlerAppends(prev, payload) ==
    IF \E i \in 1..Len(prev) : prev[i].id = payload.new.id THEN prev
    ELSE prev \o <<payload.new>>

\* the INSERT handler without its check for an entry of the same id
InsertHandlerNoDedupe(prev, payload) == <<payload.new>> \o prev

\* INSERT handler of the channel: setBookmarks updater
InsertHandler(prev, payload) ==
    IF SomeId(prev, payload.new.id) THEN prev ELSE <<payload.new>> \o prev

\* the DELETE handler with its comparison turned around (=== for !==)
DeleteHandlerKeepsMatch(prev, payload) ==
    SelectSeq(prev, LAMBDA b : b.id = payload.old.id)

\* DELETE handler of the channel: setBookmarks updater
DeleteHandler(prev, payload) == FilterOutId(prev, payload.old.id)

\* addBookmark putting the returned row in front without looking for its id
AddMergeNoDedupe(prev, data) ==
    IF data # NoData /\ Len(data[1]) > 0 THEN <<data[1][1]>> \o prev ELSE prev

\* addBookmark after a reply without error
AddMerge(prev, data) ==
    IF data # NoData /\ Len(data[1]) > 0
    THEN IF SomeId(prev, data[1][1].id) THEN prev
         ELSE <<data[1][1]>> \o prev
    ELSE prev

\* deleteBookmark without the optimistic removal
DeleteOptimisticNone(prev, id) == prev

\* deleteBookmark: the optimistic removal
DeleteOptimistic(prev, id) == FilterOutId(prev, id)

\* the blank check looking at the title only
AddRejectedTitleOnly(ti, ur) == Trim(ti) = <<>>

\* if (!title.trim() || !url.trim()) return;
AddRejected(ti, ur) == Trim(ti) = <<>> \/ Trim(ur) = <<>>

\* the row object passed to insert()
InsertRequest(ti, ur, u) == [title |-> Trim(ti), url |-> Trim(ur), user_id |-> u]

\* ------------------------------------------------------------------------
\* Datastore (public.bookmarks with RLS) and its realtime publication
\* ------------------------------------------------------------------------
\* the row the datastore creates for an insert request: id and created_at
\* are server-generated
NewRow(req) ==
    [id |-> clock + 1, created_at |-> clock + 1,
     title |-> req.title, url |-> req.url, user_id |-> req.user_id]

InsertEvent(row) == [type |-> "INSERT", new |-> row]
\* a DELETE change carries the primary key of the old row only
DeleteEvent(id) == [type |-> "DELETE", old |-> [id |-> id]]

\* RLS of the publication: an INSERT change goes to the sessions that may
\* select the row; a DELETE change goes to every subscriber
Receives(t, ev) ==
    /\ subscribed[t]
    /\ ev.type = "INSERT" => session = ev.new.user_id

Broadcast(ev) ==
    [t \in Tabs |-> IF Receives(t, ev) THEN Append(feed[t], ev) ELSE feed[t]]

\* no reply is waiting
NoReply == [data |-> NoData, error |-> Null]

\* what a handler wrote for the user or the developer to see
Silent == {}
\* console.error("Failed to fetch bookmarks:", ...)
FetchFailureOutput == {"console.error: Failed to fetch bookmarks"}
\* console.error("Failed to add bookmark:", ...) and alert(...)
AddFailureOutput ==
    {"console.error: Failed to add bookmark", "alert: Failed to add bookmark"}
\* console.error("Failed to delete bookmark:", ...)
DeleteFailureOutput == {"console.error: Failed to delete bookmark"}
\* reading user.id of a null user
UncaughtTypeError == {"TypeError"}

\* ------------------------------------------------------------------------
\* Configuration (process.env) and its check
\* ------------------------------------------------------------------------
\* an environment variable is <<>> when unset and <<s>> when set to s
Unset == <<>>
Http == <<"h", "t", "t", "p", ":", "/", "/">>
Https == <<"h", "t", "t", "p", "s", ":", "/", "/">>
\* unset, empty, a bare host, a placeholder left in .env.local
\* ("https://<x>"), and two URLs of a project
UrlInputs ==
    { Unset,
      <<(<<>>)>>,
      <<(<<"x">>)>>,
      <<(Https \o <<"<", "x", ">">>)>>,
      <<(Http \o <<"x">>)>>,
      <<(Https \o <<"x">>)>> }
KeyInputs == {Unset, <<(<<>>)>>, <<(<<"k">>)>>}

\* !v for an environment variable: unset or the empty string
Falsy(v) == v = Unset \/ v[1] = <<>>

\* String.prototype.startsWith
StartsWith(s, prefix) ==
    Len(s) >= Len(prefix) /\ SubSeq(s, 1, Len(prefix)) = prefix

\* the condition under which updateSession and the server createClient
\* skip the provider
ConfigRejected(u, k) ==
    \/ Falsy(u)
    \/ Falsy(k)
    \/ ~(StartsWith(u[1], Http) \/ StartsWith(u[1], Https))

\* an http(s) URL that names a host: what the provider client can be
\* constructed from
ForbiddenHostChars == {"<", ">", " "}
HostOk(h) == h # <<>> /\ \A i \in 1..Len(h) : h[i] \notin ForbiddenHostChars
WellFormedUrl(u) ==
    /\ ~Falsy(u)
    /\ \/ /\ StartsWith(u[1], Http)
          /\ HostOk(SubSeq(u[1], Len(Http) + 1, Len(u[1])))
       \/ /\ StartsWith(u[1], Https)
          /\ HostOk(SubSeq(u[1], Len(Https) + 1, Len(u[1])))

ValidConfig(u, k) == WellFormedUrl(u) /\ ~Falsy(k)

\* ------------------------------------------------------------------------
\* The browser client and React
\* ------------------------------------------------------------------------
\* part_001 15-40: createClient returns the stub
StubClient == IF ConfigRejected(envUrl, envKey) THEN TRUE ELSE FALSE

\* data.user of the browser client's auth.getUser(): the stub has no user
ClientUser == IF StubClient THEN Null ELSE session

\* a state setter (setUser, setBookmarks, setLoading): React drops the
\* update of a component that is not mounted any more
SetState(t, state, value) ==
    IF mounted[t] = "mounted" THEN [state EXCEPT ![t] = value] ELSE state

\* the document of the Dashboard exists: a page that the browser has left
\* for another location runs no handler and no continuation any more
PageAlive(t) == mounted[t] # "login"

\* ------------------------------------------------------------------------
\* Dashboard: mount effect (page.js 92-155)
\* ------------------------------------------------------------------------
\* the effect body: getUser() is started and the channel is subscribed
MountEffect(t) ==
    /\ mounted[t] = "rendered"
    /\ ~StubClient
    /\ mounted' = [mounted EXCEPT ![t] = "mounted"]
    /\ pc' = [pc EXCEPT ![t] = "getUser"]
    /\ subscribed' = [subscribed EXCEPT ![t] = TRUE]
    /\ out' = [out EXCEPT ![t] = Silent]
    /\ UNCHANGED <<user, bookmarks, loading, fetchReply, feed, addReqs,
                   addReplies, delReqs, delReplies>>
    /\ UNCHANGED <<envVars, webVars, signOut, fetchUser, href>>

\* await supabase.auth.getUser() returns: setUser, then either the select
\* is issued or loading ends
GetUserResolved(t) ==
    /\ pc[t] = "getUser"
    /\ PageAlive(t)
    /\ fetchUser' = [fetchUser EXCEPT ![t] = ClientUser]
    /\ user' = SetState(t, user, ClientUser)
    /\ IF ClientUser # Null
       THEN /\ pc' = [pc EXCEPT ![t] = "fetchSent"]
            /\ UNCHANGED loading
       ELSE /\ pc' = [pc EXCEPT ![t] = "done"]
            /\ loading' = SetState(t, loading, FALSE)
    /\ out' = [out EXCEPT ![t] = Silent]
    /\ UNCHANGED <<mounted, bookmarks, fetchReply, subscribed, feed, addReqs,
                   addReplies, delReqs, delReplies>>
    /\ UNCHANGED <<envVars, webVars, signOut, href>>

\* the policy "for select using (auth.uid() = user_id)"
MaySelect(r) == session # Null /\ r.user_id = session

\* the datastore answers the select .eq("user_id", user.id) of getUser with
\* the rows of that user that the session may see, newest first
ServerSelectOk(t) ==
    /\ pc[t] = "fetchSent"
    /\ pc' = [pc EXCEPT ![t] = "fetchReplied"]
    /\ fetchReply' = [fetchReply EXCEPT ![t] =
            [data |-> <<OrderDesc({r \in db : /\ r.user_id = fetchUser[t]
                                               /\ MaySelect(r)})>>,
             error |-> Null]]
    /\ UNCHANGED <<mounted, user, bookmarks, loading, subscribed, feed,
                   addReqs, addReplies, delReqs, delReplies, out>>
    /\ UNCHANGED <<envVars, webVars, signOut, fetchUser, href>>

ServerSelectFail(t) ==
    /\ pc[t] = "fetchSent"
    /\ pc' = [pc EXCEPT ![t] = "fetchReplied"]
    /\ fetchReply' = [fetchReply EXCEPT ![t] =
            [data |-> NoData, error |-> "select failed"]]
    /\ UNCHANGED <<mounted, user, bookmarks, loading, subscribed, feed,
                   addReqs, addReplies, delReqs, delReplies, out>>
    /\ UNCHANGED <<envVars, webVars, signOut, fetchUser, href>>

\* getUser ending the loading state only when the select succeeded
FetchResolvedStaysLoading(t) ==
    /\ pc[t] = "fetchReplied"
    /\ PageAlive(t)
    /\ IF fetchReply[t].error # Null
       THEN /\ out' = [out EXCEPT ![t] = FetchFailureOutput]
            /\ UNCHANGED <<bookmarks, loading>>
       ELSE /\ bookmarks' = SetState(t, bookmarks, OrEmpty(fetchReply[t].data))
            /\ out' = [out EXCEPT ![t] = Silent]
            /\ loading' = SetState(t, loading, FALSE)
    /\ pc' = [pc EXCEPT ![t] = "done"]
    /\ fetchReply' = [fetchReply EXCEPT ![t] = NoReply]
    /\ UNCHANGED <<mounted, user, subscribed, feed, addReqs, addReplies,
                   delReqs, delReplies>>
    /\ UNCHANGED <<envVars, webVars, signOut, fetchUser, href>>

\* the select returns in getUser: the error is logged or
\* setBookmarks(data || []), then setLoading(false)
FetchResolved(t) ==
    /\ pc[t] = "fetchReplied"
    /\ PageAlive(t)
    /\ IF fetchReply[t].error # Null
       THEN /\ out' = [out EXCEPT ![t] = FetchFailureOutput]
            /\ UNCHANGED bookmarks
       ELSE /\ bookmarks' = SetState(t, bookmarks, OrEmpty(fetchReply[t].data))
            /\ out' = [out EXCEPT ![t] = Silent]
    /\ loading' = SetState(t, loading, FALSE)
    /\ pc' = [pc EXCEPT ![t] = "done"]
    /\ fetchReply' = [fetchReply EXCEPT ![t] = NoReply]
    /\ UNCHANGED <<mounted, user, subscribed, feed, addReqs, addReplies,
                   delReqs, delReplies>>
    /\ UNCHANGED <<envVars, webVars, signOut, fetchUser, href>>

\* the channel delivers an INSERT change to its handler
LiveInsert(t) ==
    /\ subscribed[t]
    /\ feed[t] # <<>>
    /\ Head(feed[t]).type = "INSERT"
    /\ bookmarks' = SetState(t, bookmarks,
                             InsertHandler(bookmarks[t], Head(feed[t])))
    /\ feed' = [feed EXCEPT ![t] = Tail(@)]
    /\ out' = [out EXCEPT ![t] = Silent]
    /\ UNCHANGED <<mounted, user, loading, pc, fetchReply, subscribed,
                   addReqs, addReplies, delReqs, delReplies>>
    /\ UNCHANGED <<envVars, webVars, signOut, fetchUser, href>>

\* the channel delivers a DELETE change to its handler
LiveDelete(t) ==
    /\ subscribed[t]
    /\ feed[t] # <<>>
    /\ Head(feed[t]).type = "DELETE"
    /\ bookmarks' = SetState(t, bookmarks,
                             DeleteHandler(bookmarks[t], Head(feed[t])))
    /\ feed' = [feed EXCEPT ![t] = Tail(@)]
    /\ out' = [out EXCEPT ![t] = Silent]
    /\ UNCHANGED <<mounted, user, loading, pc, fetchReply, subscribed,
                   addReqs, addReplies, delReqs, delReplies>>
    /\ UNCHANGED <<envVars, webVars, signOut, fetchUser, href>>

\* ------------------------------------------------------------------------
\* Dashboard: the form and the list (rendered once loading is false,
\* page.js 215-221)
\* ------------------------------------------------------------------------
FormShown(t) == mounted[t] = "mounted" /\ ~loading[t]

\* requests of the tab that are sent and not yet answered to it
Outstanding(t) ==
    Len(addReqs[t]) + Len(addReplies[t]) + Len(delReqs[t]) + Len(delReplies[t])

\* addBookmark showing a provisional entry while its request is in flight
AddSubmitOptimistic(t, ti, ur) ==
    /\ FormShown(t)
    /\ ~AddRejected(ti, ur)
    /\ user[t] # Null
    /\ Outstanding(t) < MaxInflight
    /\ addReqs' = [addReqs EXCEPT ![t] =
            Append(@, InsertRequest(ti, ur, user[t]))]
    /\ bookmarks' = [bookmarks EXCEPT ![t] =
            <<[id |-> clock + 1, created_at |-> clock + 1, title |-> Trim(ti),
               url |-> Trim(ur), user_id |-> user[t]]>> \o @]
    /\ out' = [out EXCEPT ![t] = Silent]
    /\ UNCHANGED <<mounted, user, loading, pc, fetchReply, subscribed, feed,
                   addReplies, delReqs, delReplies>>
    /\ UNCHANGED <<envVars, webVars, signOut, fetchUser, href>>

\* addBookmark up to its await, for the form content (ti, ur): the blank
\* check, then the insert request.  With no user, reading user.id throws
\* before a request is made.
AddSubmit(t, ti, ur) ==
    /\ FormShown(t)
    /\ IF AddRejected(ti, ur)
       THEN /\ out' = [out EXCEPT ![t] = Silent]
            /\ UNCHANGED addReqs
       ELSE IF user[t] = Null
       THEN /\ out' = [out EXCEPT ![t] = UncaughtTypeError]
            /\ UNCHANGED addReqs
       ELSE /\ Outstanding(t) < MaxInflight
            /\ addReqs' = [addReqs EXCEPT ![t] =
                    Append(@, InsertRequest(ti, ur, user[t]))]
            /\ out' = [out EXCEPT ![t] = Silent]
    /\ UNCHANGED <<mounted, user, bookmarks, loading, pc, fetchReply,
                   subscribed, feed, addReplies, delReqs, delReplies>>
    /\ UNCHANGED <<envVars, webVars, signOut, fetchUser, href>>

\* the datastore performs an insert: RLS check, new row, INSERT change
ServerInsertOk(t, i) ==
    /\ i \in 1..Len(addReqs[t])
    /\ clock < MaxRecords
    /\ session # Null
    /\ addReqs[t][i].user_id = session
    /\ LET row == NewRow(addReqs[t][i]) IN
         /\ db' = db \cup {row}
         /\ clock' = clock + 1
         /\ feed' = Broadcast(InsertEvent(row))
         /\ addReplies' = [addReplies EXCEPT ![t] =
                Append(@, [data |-> <<(<<row>>)>>, error |-> Null])]
    /\ addReqs' = [addReqs EXCEPT ![t] = Remove(@, i)]
    /\ UNCHANGED <<mounted, user, bookmarks, loading, pc, fetchReply,
                   subscribed, delReqs, delReplies, out, session>>
    /\ UNCHANGED <<webVars, signOut, fetchUser, href>>

\* the datastore refuses an insert
ServerInsertFail(t, i) ==
    /\ i \in 1..Len(addReqs[t])
    /\ addReplies' = [addReplies EXCEPT ![t] =
            Append(@, [data |-> NoData, error |-> "insert failed"])]
    /\ addReqs' = [addReqs EXCEPT ![t] = Remove(@, i)]
    /\ UNCHANGED <<mounted, user, bookmarks, loading, pc, fetchReply,
                   subscribed, feed, delReqs, delReplies, out>>
    /\ UNCHANGED <<envVars, webVars, signOut, fetchUser, href>>

\* addBookmark after its await
AddResolved(t, j) ==
    /\ j \in 1..Len(addReplies[t])
    /\ PageAlive(t)
    /\ LET reply == addReplies[t][j] IN
         IF reply.error # Null
         THEN /\ out' = [out EXCEPT ![t] = AddFailureOutput]
              /\ UNCHANGED bookmarks
         ELSE /\ bookmarks' = SetState(t, bookmarks,
                                       AddMerge(bookmarks[t], reply.data))
              /\ out' = [out EXCEPT ![t] = Silent]
    /\ addReplies' = [addReplies EXCEPT ![t] = Remove(@, j)]
    /\ UNCHANGED <<mounted, user, loading, pc, fetchReply, subscribed, feed,
                   addReqs, delReqs, delReplies>>
    /\ UNCHANGED <<envVars, webVars, signOut, fetchUser, href>>

\* deleteBookmark up to its await: optimistic removal, then the request
DeleteClick(t, id) ==
    /\ FormShown(t)
    /\ SomeId(bookmarks[t], id)
    /\ Outstanding(t) < MaxInflight
    /\ bookmarks' = [bookmarks EXCEPT ![t] = DeleteOptimistic(@, id)]
    /\ delReqs' = [delReqs EXCEPT ![t] = Append(@, id)]
    /\ out' = [out EXCEPT ![t] = Silent]
    /\ UNCHANGED <<mounted, user, loading, pc, fetchReply, subscribed, feed,
                   addReqs, addReplies, delReplies>>
    /\ UNCHANGED <<envVars, webVars, signOut, fetchUser, href>>

\* the policy "for delete using (auth.uid() = user_id)"
MayDelete(r) == session # Null /\ r.user_id = session

\* the datastore performs .delete().eq("id", id): the row goes if the
\* session may delete it, and then a DELETE change is sent; a delete that
\* matches no row is no error
ServerDeleteOk(t, i) ==
    /\ i \in 1..Len(delReqs[t])
    /\ LET id == delReqs[t][i]
           gone == {r \in db : r.id = id /\ MayDelete(r)}
       IN /\ db' = db \ gone
          /\ feed' = IF gone # {} THEN Broadcast(DeleteEvent(id)) ELSE feed
    /\ delReplies' = [delReplies EXCEPT ![t] = Append(@, [error |-> Null])]
    /\ delReqs' = [delReqs EXCEPT ![t] = Remove(@, i)]
    /\ UNCHANGED <<mounted, user, bookmarks, loading, pc, fetchReply,
                   subscribed, addReqs, addReplies, out, session, clock>>
    /\ UNCHANGED <<webVars, signOut, fetchUser, href>>

\* the datastore refuses a delete
ServerDeleteFail(t, i) ==
    /\ i \in 1..Len(delReqs[t])
    /\ delReplies' = [delReplies EXCEPT ![t] =
            Append(@, [error |-> "delete failed"])]
    /\ delReqs' = [delReqs EXCEPT ![t] = Remove(@, i)]
    /\ UNCHANGED <<mounted, user, bookmarks, loading, pc, fetchReply,
                   subscribed, feed, addReqs, addReplies, out>>
    /\ UNCHANGED <<envVars, webVars, signOut, fetchUser, href>>

\* deleteBookmark after its await: an error is logged, nothing else
DeleteResolved(t, j) ==
    /\ j \in 1..Len(delReplies[t])
    /\ PageAlive(t)
    /\ IF delReplies[t][j].error # Null
       THEN out' = [out EXCEPT ![t] = DeleteFailureOutput]
       ELSE out' = [out EXCEPT ![t] = Silent]
    /\ delReplies' = [delReplies EXCEPT ![t] = Remove(@, j)]
    /\ UNCHANGED <<mounted, user, bookmarks, loading, pc, fetchReply,
                   subscribed, feed, addReqs, addReplies, delReqs>>
    /\ UNCHANGED <<envVars, webVars, signOut, fetchUser, href>>

\* ------------------------------------------------------------------------
\* Dashboard: teardown, sign-out, and the mount effect on the stub client
\* ------------------------------------------------------------------------
\* an unhandled promise rejection of handleSignOut
UnhandledRejection == {"unhandledrejection"}

\* the cleanup leaving the channel joined
UnmountKeepsChannel(t) ==
    /\ mounted[t] = "mounted"
    /\ mounted' = [mounted EXCEPT ![t] = "unmounted"]
    /\ out' = [out EXCEPT ![t] = Silent]
    /\ UNCHANGED <<user, bookmarks, loading, pc, fetchReply, subscribed, feed,
                   addReqs, addReplies, delReqs, delReplies, signOut>>
    /\ UNCHANGED <<envVars, webVars, fetchUser, href>>

\* the Dashboard is unmounted: the cleanup of the mount effect removes the
\* channel (page.js 152-154)
Unmount(t) ==
    /\ mounted[t] = "mounted"
    /\ mounted' = [mounted EXCEPT ![t] = "unmounted"]
    /\ subscribed' = [subscribed EXCEPT ![t] = FALSE]
    /\ out' = [out EXCEPT ![t] = Silent]
    /\ UNCHANGED <<user, bookmarks, loading, pc, fetchReply, feed, addReqs,
                   addReplies, delReqs, delReplies, signOut>>
    /\ UNCHANGED <<envVars, webVars, fetchUser, href>>

\* auth.signOut() ends: the session is invalidated ("ok"), an error is
\* returned ({ error }), or the promise is rejected
SignOutOutcomes == {"ok", "error", "rejected"}
\* where a call of handleSignOut that has not ended can be: awaiting
\* auth.signOut(), or about to go on with its promise fulfilled (the value,
\* with or without an error, is not looked at) or rejected
SignOutStages == {"sent", "returned", "rejected"}
SignOutResults == SignOutStages \ {"sent"}
NoSignOut == [k \in SignOutStages |-> 0]
\* window.location.href has not been assigned by the page
NoNavigation == "unassigned"
SignOutCalls(t) ==
    signOut[t]["sent"] + signOut[t]["returned"] + signOut[t]["rejected"]

\* handleSignOut up to its await (page.js 207-208); the button can be
\* clicked again as long as the page is shown
SignOutClick(t) ==
    /\ FormShown(t)
    /\ SignOutCalls(t) < MaxSignOuts
    /\ signOut' = [signOut EXCEPT ![t]["sent"] = @ + 1]
    /\ out' = [out EXCEPT ![t] = Silent]
    /\ UNCHANGED <<mounted, user, bookmarks, loading, pc, fetchReply,
                   subscribed, feed, addReqs, addReplies, delReqs, delReplies>>
    /\ UNCHANGED <<envVars, webVars, fetchUser, href>>

\* the provider answers one call of auth.signOut()
ProviderSignOut(t, outcome) ==
    /\ signOut[t]["sent"] > 0
    /\ LET stage == IF outcome = "rejected" THEN "rejected" ELSE "returned"
       IN signOut' = [signOut EXCEPT ![t]["sent"] = @ - 1,
                                     ![t][stage] = @ + 1]
    /\ session' = IF outcome = "ok" THEN Null ELSE session
    /\ UNCHANGED <<mounted, user, bookmarks, loading, pc, fetchReply,
                   subscribed, feed, addReqs, addReplies, delReqs, delReplies,
                   out, db, clock>>
    /\ UNCHANGED <<webVars, fetchUser, href>>

\* handleSignOut after its await (page.js 208-209): window.location.href is
\* assigned and the handler ends; a rejected promise ends the handler
\* before the assignment.  The page stays as it is until the browser acts
\* on the assignment.
SignOutResolved(t, stage) ==
    /\ signOut[t][stage] > 0
    /\ PageAlive(t)
    /\ signOut' = [signOut EXCEPT ![t][stage] = @ - 1]
    /\ IF stage = "rejected"
       THEN /\ out' = [out EXCEPT ![t] = UnhandledRejection]
            /\ UNCHANGED href
       ELSE /\ href' = [href EXCEPT ![t] = "/login"]
            /\ out' = [out EXCEPT ![t] = Silent]
    /\ UNCHANGED <<mounted, user, bookmarks, loading, pc, fetchReply,
                   subscribed, feed, addReqs, addReplies, delReqs, delReplies>>
    /\ UNCHANGED <<envVars, webVars, fetchUser>>

\* the browser acts on the assignment of window.location.href (page.js
\* 209): the document of the Dashboard is discarded for the login route.
\* No cleanup of the mount effect runs; the channel goes with the
\* connection of the document, and no handler of the page is called again.
LeavePage(t) ==
    /\ href[t] = "/login"
    /\ mounted[t] \in {"mounted", "unmounted"}
    /\ mounted' = [mounted EXCEPT ![t] = "login"]
    /\ subscribed' = [subscribed EXCEPT ![t] = FALSE]
    /\ UNCHANGED <<user, bookmarks, loading, pc, fetchReply, feed, addReqs,
                   addReplies, delReqs, delReplies, out, signOut>>
    /\ UNCHANGED <<envVars, webVars, fetchUser, href>>

\* the mount effect on the stub client (page.js 119-139, part_001 29-32):
\* getUser() is started, then the second .on() is called on an object that
\* has no such method; the uncaught TypeError takes the Dashboard down
StubMountEffect(t) ==
    /\ mounted[t] = "rendered"
    /\ StubClient
    /\ mounted' = [mounted EXCEPT ![t] = "crashed"]
    /\ pc' = [pc EXCEPT ![t] = "getUser"]
    /\ out' = [out EXCEPT ![t] = UncaughtTypeError]
    /\ UNCHANGED <<user, bookmarks, loading, fetchReply, subscribed, feed,
                   addReqs, addReplies, delReqs, delReplies, signOut>>
    /\ UNCHANGED <<envVars, webVars, fetchUser, href>>

\* ------------------------------------------------------------------------
\* Another session of the same user (another device or browser)
\* ------------------------------------------------------------------------
\* the title of the rows that the other session creates
OtherTitle == <<"o">>

OtherInsert ==
    /\ clock < MaxRecords
    /\ LET row == NewRow([title |-> OtherTitle, url |-> <<"a">>,
                          user_id |-> Owner]) IN
         /\ db' = db \cup {row}
         /\ feed' = Broadcast(InsertEvent(row))
    /\ clock' = clock + 1
    /\ UNCHANGED <<mounted, user, bookmarks, loading, pc, fetchReply,
                   subscribed, addReqs, addReplies, delReqs, delReplies, out,
                   session>>
    /\ UNCHANGED <<webVars, signOut, fetchUser, href>>

OtherDelete(id) ==
    /\ \E r \in db : r.id = id
    /\ db' = {r \in db : r.id # id}
    /\ feed' = Broadcast(DeleteEvent(id))
    /\ UNCHANGED <<mounted, user, bookmarks, loading, pc, fetchReply,
                   subscribed, addReqs, addReplies, delReqs, delReplies, out,
                   session, clock>>
    /\ UNCHANGED <<webVars, signOut, fetchUser, href>>

\* ------------------------------------------------------------------------
\* Authorization gate: updateSession (middleware.js 9-70)
\* ------------------------------------------------------------------------
Paths == {"/", "/login", "/auth/callback", "/about"}
\* "none": no token cookies; "valid": a current access token;
\* "stale": an expired access token that the refresh token renews;
\* "dead": expired tokens that the provider refuses to renew
Sessions == {"none", "valid", "stale", "dead"}
CookieNames == {"access", "refresh"}

\* NextResponse.next({ request }) and NextResponse.redirect(url)
NoResponse == [kind |-> "none", location |-> Null, cookies |-> {}]
NextResponse == [kind |-> "next", location |-> Null, cookies |-> {}]
RedirectResponse(path) == [kind |-> "redirect", location |-> path, cookies |-> {}]

\* cookies.set(name, value) for each cookie of a list, on a cookie jar
SetCookies(jar, list) ==
    {c \in jar : \A n \in list : n.name # c.name} \cup list

\* cookies.setAll (middleware.js 34-42): the response is created anew and
\* gets the cookies of this call
SetAllResponse(cookiesToSet) ==
    [NextResponse EXCEPT !.cookies = SetCookies(@, cookiesToSet)]

\* data.user of auth.getUser() for the request's session
ProviderUser(sess) == IF sess \in {"valid", "stale"} THEN Owner ELSE Null

\* the gate sending every anonymous request but those for /login to /login
GateDecisionGuardsAll(u, pathname, supabaseResponse) ==
    IF u = Null /\ pathname # "/login" THEN RedirectResponse("/login")
    ELSE IF u # Null /\ pathname = "/login" THEN RedirectResponse("/")
    ELSE supabaseResponse

\* the gate sending every request for /login away, signed in or not
GateDecisionBouncesLogin(u, pathname, supabaseResponse) ==
    IF u = Null /\ pathname = "/" THEN RedirectResponse("/login")
    ELSE IF pathname = "/login" THEN RedirectResponse("/")
    ELSE supabaseResponse

\* middleware.js 53-69: the two redirects, else the pass-through response
GateDecision(u, pathname, supabaseResponse) ==
    IF u = Null /\ pathname = "/" THEN RedirectResponse("/login")
    ELSE IF u # Null /\ pathname = "/login" THEN RedirectResponse("/")
    ELSE supabaseResponse

\* middleware.js 11-29: the configuration check; then the client is made
\* and auth.getUser() is awaited
GateEnter ==
    /\ gPc = "start"
    /\ gResponse' = NextResponse
    /\ IF ConfigRejected(envUrl, envKey)
       THEN /\ gWarned' = TRUE
            /\ gReturned' = NextResponse
            /\ gPc' = "done"
            /\ UNCHANGED gContacted
       ELSE /\ gContacted' = TRUE
            /\ gPc' = "getUser"
            /\ UNCHANGED <<gWarned, gReturned>>
    /\ UNCHANGED <<gPath, gSession, gReqCookies, gSetAlls, gHops>>
    /\ UNCHANGED <<dashVars, envVars, cfgVars, cbVars>>

\* middleware.js 11-29: the configuration passes the check and
\* createServerClient is given a URL it cannot parse: whether it throws is
\* the library's choice; when it does, no client exists and getUser is
\* never called
GateClientThrows ==
    /\ gPc = "start"
    /\ IF ConfigRejected(envUrl, envKey) THEN FALSE
       ELSE ~WellFormedUrl(envUrl)
    /\ gResponse' = NextResponse
    /\ gPc' = "threw"
    /\ UNCHANGED <<gPath, gSession, gReqCookies, gReturned, gWarned,
                   gContacted, gSetAlls, gHops>>
    /\ UNCHANGED <<dashVars, envVars, cfgVars, cbVars>>

\* during getUser the client stores renewed (or cleared) token cookies
GateSetAll(names) ==
    /\ gPc = "getUser"
    /\ gSession \in {"stale", "dead"}
    /\ gSetAlls < MaxSetAll
    /\ names # {}
    /\ LET cookiesToSet == {[name |-> n, value |-> gSetAlls + 1] : n \in names}
       IN /\ gReqCookies' = SetCookies(gReqCookies, cookiesToSet)
          /\ gResponse' = SetAllResponse(cookiesToSet)
    /\ gSetAlls' = gSetAlls + 1
    /\ UNCHANGED <<gPc, gPath, gSession, gReturned, gWarned, gContacted,
                   gHops>>
    /\ UNCHANGED <<dashVars, envVars, cfgVars, cbVars>>

\* getUser returns; a stale session has been renewed by then
GateGetUserResolved ==
    /\ gPc = "getUser"
    /\ gSession = "stale" => gSetAlls >= 1
    /\ gReturned' = GateDecision(ProviderUser(gSession), gPath, gResponse)
    /\ gPc' = "done"
    /\ UNCHANGED <<gPath, gSession, gReqCookies, gResponse, gWarned,
                   gContacted, gSetAlls, gHops>>
    /\ UNCHANGED <<dashVars, envVars, cfgVars, cbVars>>

\* the token cookies the browser sends with a request
BrowserCookies(sess) ==
    IF sess = "none" THEN {}
    ELSE {[name |-> n, value |-> 0] : n \in CookieNames}

\* the browser follows a redirect of the gate (middleware.js 58, 66): a new
\* request for the redirect's location enters updateSession; the redirect
\* carried no cookies, so the browser's session is what it was
FollowRedirect ==
    /\ gPc = "done"
    /\ gReturned.kind = "redirect"
    /\ gHops < MaxHops
    /\ gHops' = gHops + 1
    /\ gPath' = gReturned.location
    /\ gPc' = "start"
    /\ gReqCookies' = BrowserCookies(gSession)
    /\ gResponse' = NoResponse
    /\ gReturned' = NoResponse
    /\ gSetAlls' = 0
    /\ UNCHANGED <<gSession, gWarned, gContacted>>
    /\ UNCHANGED <<dashVars, envVars, cfgVars, cbVars>>

\* ------------------------------------------------------------------------
\* Callback route: GET (part_000 10-31) with the server createClient
\* (server.js 9-36)
\* ------------------------------------------------------------------------
\* searchParams.get("code"): <<>> when the parameter is absent
NoCode == <<>>
CodeInputs == {NoCode, <<(<<>>)>>, <<(<<"g">>)>>, <<(<<"b">>)>>}
\* the codes the provider issued and has not redeemed
IssuedCodes == {<<"g">>}

\* if (code): null and the empty string are falsy
CodeGiven(c) == c # NoCode /\ c[1] # <<>>

\* NextResponse.redirect(`${origin}/login?error=...`), redirect(origin)
LoginError(reason) == [kind |-> "redirect", location |-> "/login", error |-> reason]
HomeRedirect == [kind |-> "redirect", location |-> "/", error |-> Null]

\* server.js 13-17: createClient returns null
ServerClientMissing(u, k) == ConfigRejected(u, k)

\* GET up to its first await (part_000 11-15, 28-30) with the synchronous
\* part of createClient (server.js 10-19): without a code the response is
\* returned at once; with a code createClient either warns and returns
\* null, or awaits cookies()
CallbackEnter ==
    /\ cbPc = "start"
    /\ IF CodeGiven(cbCode)
       THEN IF ServerClientMissing(envUrl, envKey)
            THEN /\ cbWarned' = TRUE
                 /\ cbPc' = "noClient"
                 /\ UNCHANGED cbReturned
            ELSE /\ cbPc' = "cookies"
                 /\ UNCHANGED <<cbWarned, cbReturned>>
       ELSE /\ cbReturned' = Append(cbReturned, LoginError("auth"))
            /\ cbPc' = "done"
            /\ UNCHANGED cbWarned
    /\ UNCHANGED <<cbCode, cbExchanges, cbSession>>
    /\ UNCHANGED <<dashVars, envVars, cfgVars, gateVars>>

\* createClient after await cookies() (server.js 19-35): the provider
\* client is constructed and returned
CallbackCreateServerClient ==
    /\ cbPc = "cookies"
    /\ cbPc' = "client"
    /\ UNCHANGED <<cbCode, cbExchanges, cbSession, cbReturned, cbWarned>>
    /\ UNCHANGED <<dashVars, envVars, cfgVars, gateVars>>

\* createServerClient (server.js 21) is given a URL it cannot parse:
\* whether it throws is the library's choice; when it does, no exchange is
\* ever called
CallbackClientThrows ==
    /\ cbPc = "cookies"
    /\ ~WellFormedUrl(envUrl)
    /\ cbPc' = "threw"
    /\ UNCHANGED <<cbCode, cbExchanges, cbSession, cbReturned, cbWarned>>
    /\ UNCHANGED <<dashVars, envVars, cfgVars, gateVars>>

\* GET after await createClient() (part_000 15-22): without a client the
\* request is sent to /login?error=config, else the exchange is called
CallbackClientReturned ==
    /\ cbPc \in {"client", "noClient"}
    /\ IF cbPc = "noClient"
       THEN /\ cbReturned' = Append(cbReturned, LoginError("config"))
            /\ cbPc' = "done"
            /\ UNCHANGED cbExchanges
       ELSE /\ cbExchanges' = cbExchanges + 1
            /\ cbPc' = "exchange"
            /\ UNCHANGED cbReturned
    /\ UNCHANGED <<cbCode, cbSession, cbWarned>>
    /\ UNCHANGED <<dashVars, envVars, cfgVars, gateVars>>

\* the callback going home whatever the exchange returned
CallbackExchangedIgnoresError(ok) ==
    /\ cbPc = "exchange"
    /\ ok => cbCode[1] \in IssuedCodes
    /\ cbSession' = IF ok THEN Owner ELSE Null
    /\ cbReturned' = Append(cbReturned, HomeRedirect)
    /\ cbPc' = "done"
    /\ UNCHANGED <<cbCode, cbExchanges, cbWarned>>
    /\ UNCHANGED <<dashVars, envVars, cfgVars, gateVars>>

\* part_000 22-30: the exchange returns with or without an error; only an
\* issued code can be redeemed
CallbackExchanged(ok) ==
    /\ cbPc = "exchange"
    /\ ok => cbCode[1] \in IssuedCodes
    /\ cbSession' = IF ok THEN Owner ELSE Null
    /\ cbReturned' = Append(cbReturned,
            IF ok THEN HomeRedirect ELSE LoginError("auth"))
    /\ cbPc' = "done"
    /\ UNCHANGED <<cbCode, cbExchanges, cbWarned>>
    /\ UNCHANGED <<dashVars, envVars, cfgVars, gateVars>>

\* ------------------------------------------------------------------------
\* Specification of one Dashboard against the datastore
\* ------------------------------------------------------------------------
DashInit ==
    /\ mounted = [t \in Tabs |-> IF t = ThisTab THEN "rendered" ELSE "absent"]
    /\ user = [t \in Tabs |-> Null]
    /\ fetchUser = [t \in Tabs |-> Null]
    /\ bookmarks = [t \in Tabs |-> <<>>]
    /\ loading = [t \in Tabs |-> TRUE]
    /\ pc = [t \in Tabs |-> "start"]
    /\ fetchReply = [t \in Tabs |-> NoReply]
    /\ subscribed = [t \in Tabs |-> FALSE]
    /\ feed = [t \in Tabs |-> <<>>]
    /\ addReqs = [t \in Tabs |-> <<>>]
    /\ addReplies = [t \in Tabs |-> <<>>]
    /\ delReqs = [t \in Tabs |-> <<>>]
    /\ delReplies = [t \in Tabs |-> <<>>]
    /\ out = [t \in Tabs |-> Silent]
    /\ signOut = [t \in Tabs |-> NoSignOut]
    /\ href = [t \in Tabs |-> NoNavigation]

EnvInit ==
    /\ session \in {Null, Owner}
    /\ db = {}
    /\ clock = 0

\* the configuration of a deployment that works
GoodConfig ==
    /\ envUrl = <<(Https \o <<"x">>)>>
    /\ envKey = <<(<<"k">>)>>

GateIdle ==
    /\ gPc = "idle"
    /\ gPath = "/"
    /\ gSession = "none"
    /\ gReqCookies = {}
    /\ gResponse = NoResponse
    /\ gReturned = NoResponse
    /\ gWarned = FALSE
    /\ gContacted = FALSE
    /\ gSetAlls = 0
    /\ gHops = 0

CallbackIdle ==
    /\ cbPc = "idle"
    /\ cbCode = NoCode
    /\ cbExchanges = 0
    /\ cbSession = Null
    /\ cbReturned = <<>>
    /\ cbWarned = FALSE

Init == DashInit /\ EnvInit /\ GoodConfig /\ GateIdle /\ CallbackIdle

DashStep(t) ==
    \/ MountEffect(t)
    \/ GetUserResolved(t)
    \/ FetchResolved(t)
    \/ LiveInsert(t)
    \/ LiveDelete(t)
    \/ \E ti \in FieldInputs, ur \in FieldInputs : AddSubmit(t, ti, ur)
    \/ \E j \in 1..MaxInflight : AddResolved(t, j)
    \/ \E id \in 1..MaxRecords : DeleteClick(t, id)
    \/ \E j \in 1..MaxInflight : DeleteResolved(t, j)

ServerStep(t) ==
    \/ ServerSelectOk(t)
    \/ ServerSelectFail(t)
    \/ \E i \in 1..MaxInflight : ServerInsertOk(t, i)
    \/ \E i \in 1..MaxInflight : ServerInsertFail(t, i)
    \/ \E i \in 1..MaxInflight : ServerDeleteOk(t, i)
    \/ \E i \in 1..MaxInflight : ServerDeleteFail(t, i)

Next ==
    \/ DashStep(ThisTab)
    \/ ServerStep(ThisTab)
    \/ OtherInsert
    \/ \E id \in 1..MaxRecords : OtherDelete(id)

Spec == Init /\ [][Next]_vars

\* ------------------------------------------------------------------------
\* Specification of one request through the authorization gate
\* ------------------------------------------------------------------------
DashIdle ==
    /\ DashInit
    /\ session = Null
    /\ db = {}
    /\ clock = 0

GateInit ==
    /\ envUrl \in UrlInputs
    /\ envKey \in KeyInputs
    /\ gPc = "start"
    /\ gPath \in Paths
    /\ gSession \in Sessions
    /\ gReqCookies = BrowserCookies(gSession)
    /\ gResponse = NoResponse
    /\ gReturned = NoResponse
    /\ gWarned = FALSE
    /\ gContacted = FALSE
    /\ gSetAlls = 0
    /\ gHops = 0
    /\ DashIdle
    /\ CallbackIdle

GateNext ==
    \/ GateEnter
    \/ GateClientThrows
    \/ \E names \in SUBSET CookieNames : GateSetAll(names)
    \/ GateGetUserResolved

SpecGate == GateInit /\ [][GateNext]_vars

\* ------------------------------------------------------------------------
\* Specification of a navigation: a request and the redirects it leads to
\* ------------------------------------------------------------------------
NavNext ==
    \/ GateEnter
    \/ GateClientThrows
    \/ \E names \in SUBSET CookieNames : GateSetAll(names)
    \/ GateGetUserResolved
    \/ FollowRedirect

SpecNav == GateInit /\ [][NavNext]_vars

\* ------------------------------------------------------------------------
\* Specification of one request to the callback route
\* ------------------------------------------------------------------------
CallbackInit ==
    /\ envUrl \in UrlInputs
    /\ envKey \in KeyInputs
    /\ cbPc = "start"
    /\ cbCode \in CodeInputs
    /\ cbExchanges = 0
    /\ cbSession = Null
    /\ cbReturned = <<>>
    /\ cbWarned = FALSE
    /\ DashIdle
    /\ GateIdle

CallbackNext ==
    \/ CallbackEnter
    \/ CallbackCreateServerClient
    \/ CallbackClientThrows
    \/ CallbackClientReturned
    \/ \E ok \in BOOLEAN : CallbackExchanged(ok)

SpecCallback == CallbackInit /\ [][CallbackNext]_vars

\* ------------------------------------------------------------------------
\* Specification of one Dashboard from mount to teardown or sign-out, on
\* the real or on the stub client
\* ------------------------------------------------------------------------
\* the configurations that createClient rejects, and that of a working
\* deployment
SessionConfigs ==
    {c \in UrlInputs \X KeyInputs :
        ConfigRejected(c[1], c[2]) \/ c = <<(<<(Https \o <<"x">>)>>), (<<(<<"k">>)>>)>>}

SessionInit ==
    /\ DashInit
    /\ EnvInit
    /\ \E c \in SessionConfigs : envUrl = c[1] /\ envKey = c[2]
    /\ GateIdle
    /\ CallbackIdle

SessionNext ==
    \/ DashStep(ThisTab)
    \/ ServerStep(ThisTab)
    \/ StubMountEffect(ThisTab)
    \/ Unmount(ThisTab)
    \/ SignOutClick(ThisTab)
    \/ \E outcome \in SignOutOutcomes : ProviderSignOut(ThisTab, outcome)
    \/ \E stage \in SignOutResults : SignOutResolved(ThisTab, stage)
    \/ LeavePage(ThisTab)

SpecSession == SessionInit /\ [][SessionNext]_vars

\* ------------------------------------------------------------------------
\* Specification of one Dashboard of a working deployment from mount until
\* it is gone, by unmounting or by a sign-out whose navigation the browser
\* carries out; requests may fail, and the form is submitted with one
\* content that is not blank
\* ------------------------------------------------------------------------
TeardownInit ==
    /\ DashInit
    /\ EnvInit
    /\ GoodConfig
    /\ GateIdle
    /\ CallbackIdle

TeardownNext ==
    \/ MountEffect(ThisTab)
    \/ GetUserResolved(ThisTab)
    \/ FetchResolved(ThisTab)
    \/ LiveInsert(ThisTab)
    \/ LiveDelete(ThisTab)
    \/ AddSubmit(ThisTab, <<"U+000B", "a", "\n">>, <<"a">>)
    \/ \E j \in 1..MaxInflight : AddResolved(ThisTab, j)
    \/ \E id \in 1..MaxRecords : DeleteClick(ThisTab, id)
    \/ \E j \in 1..MaxInflight : DeleteResolved(ThisTab, j)
    \/ ServerStep(ThisTab)
    \/ Unmount(ThisTab)
    \/ SignOutClick(ThisTab)
    \/ \E outcome \in {"ok", "error"} : ProviderSignOut(ThisTab, outcome)
    \/ SignOutResolved(ThisTab, "returned")
    \/ LeavePage(ThisTab)

SpecTeardown == TeardownInit /\ [][TeardownNext]_vars

\* ------------------------------------------------------------------------
\* Specification of two tabs of one user, both mounted and past their
\* first fetch, whose requests all succeed
\* ------------------------------------------------------------------------
TabsInit ==
    /\ mounted = [t \in Tabs |-> "mounted"]
    /\ user = [t \in Tabs |-> Owner]
    /\ fetchUser = [t \in Tabs |-> Owner]
    /\ bookmarks = [t \in Tabs |-> <<>>]
    /\ loading = [t \in Tabs |-> FALSE]
    /\ pc = [t \in Tabs |-> "done"]
    /\ fetchReply = [t \in Tabs |-> NoReply]
    /\ subscribed = [t \in Tabs |-> TRUE]
    /\ feed = [t \in Tabs |-> <<>>]
    /\ addReqs = [t \in Tabs |-> <<>>]
    /\ addReplies = [t \in Tabs |-> <<>>]
    /\ delReqs = [t \in Tabs |-> <<>>]
    /\ delReplies = [t \in Tabs |-> <<>>]
    /\ out = [t \in Tabs |-> Silent]
    /\ signOut = [t \in Tabs |-> NoSignOut]
    /\ href = [t \in Tabs |-> NoNavigation]
    /\ session = Owner
    /\ db = {}
    /\ clock = 0
    /\ GoodConfig
    /\ GateIdle
    /\ CallbackIdle

TabsStep(t) ==
    \/ \E ti \in FieldInputs, ur \in FieldInputs : AddSubmit(t, ti, ur)
    \/ \E i \in 1..MaxInflight : ServerInsertOk(t, i)
    \/ \E j \in 1..MaxInflight : AddResolved(t, j)
    \/ \E id \in 1..MaxRecords : DeleteClick(t, id)
    \/ \E i \in 1..MaxInflight : ServerDeleteOk(t, i)
    \/ \E j \in 1..MaxInflight : DeleteResolved(t, j)
    \/ LiveInsert(t)
    \/ LiveDelete(t)

TabsNext == \E t \in Tabs : TabsStep(t)

SpecTabs == TabsInit /\ [][TabsNext]_vars

\* ------------------------------------------------------------------------
\* Specification of the form of a Dashboard that has finished loading, with
\* or without a signed-in user, submitted with every kind of field content
\* ------------------------------------------------------------------------
FormInit ==
    /\ session \in {Null, Owner}
    /\ mounted = [t \in Tabs |-> IF t = ThisTab THEN "mounted" ELSE "absent"]
    /\ user = [t \in Tabs |-> IF t = ThisTab THEN session ELSE Null]
    /\ fetchUser = [t \in Tabs |-> IF t = ThisTab THEN session ELSE Null]
    /\ bookmarks = [t \in Tabs |-> <<>>]
    /\ loading = [t \in Tabs |-> t # ThisTab]
    /\ pc = [t \in Tabs |-> IF t = ThisTab THEN "done" ELSE "start"]
    /\ fetchReply = [t \in Tabs |-> NoReply]
    /\ subscribed = [t \in Tabs |-> t = ThisTab]
    /\ feed = [t \in Tabs |-> <<>>]
    /\ addReqs = [t \in Tabs |-> <<>>]
    /\ addReplies = [t \in Tabs |-> <<>>]
    /\ delReqs = [t \in Tabs |-> <<>>]
    /\ delReplies = [t \in Tabs |-> <<>>]
    /\ out = [t \in Tabs |-> Silent]
    /\ signOut = [t \in Tabs |-> NoSignOut]
    /\ href = [t \in Tabs |-> NoNavigation]
    /\ db = {}
    /\ clock = 0
    /\ GoodConfig
    /\ GateIdle
    /\ CallbackIdle

FormNext ==
    \/ \E c \in FormContents : AddSubmit(ThisTab, c[1], c[2])
    \/ \E i \in 1..MaxInflight : ServerInsertOk(ThisTab, i)
    \/ \E i \in 1..MaxInflight : ServerInsertFail(ThisTab, i)
    \/ \E j \in 1..MaxInflight : AddResolved(ThisTab, j)
    \/ LiveInsert(ThisTab)

SpecForm == FormInit /\ [][FormNext]_vars

\* ------------------------------------------------------------------------
\* Specification of the first fetch of a signed-in Dashboard against the
\* changes that another session makes around it; no request fails
\* ------------------------------------------------------------------------
FetchRaceInit ==
    /\ DashInit
    /\ session = Owner
    /\ db = {}
    /\ clock = 0
    /\ GoodConfig
    /\ GateIdle
    /\ CallbackIdle

FetchRaceNext ==
    \/ MountEffect(ThisTab)
    \/ GetUserResolved(ThisTab)
    \/ ServerSelectOk(ThisTab)
    \/ FetchResolved(ThisTab)
    \/ LiveInsert(ThisTab)
    \/ LiveDelete(ThisTab)
    \/ OtherInsert
    \/ \E id \in 1..MaxRecords : OtherDelete(id)

SpecFetchRace == FetchRaceInit /\ [][FetchRaceNext]_vars

\* ------------------------------------------------------------------------
\* Specification of one Dashboard whose mount effect runs and whose
\* requests of the mount effect are answered
\* ------------------------------------------------------------------------
\* React runs the effect of a rendered component; auth.getUser() and the
\* select settle; an async function continues once its await has settled
LoadFairness ==
    /\ WF_vars(MountEffect(ThisTab))
    /\ WF_vars(GetUserResolved(ThisTab))
    /\ WF_vars(ServerSelectOk(ThisTab) \/ ServerSelectFail(ThisTab))
    /\ WF_vars(FetchResolved(ThisTab))

SpecLoad == Init /\ [][Next]_vars /\ LoadFairness

\* ------------------------------------------------------------------------
\* Properties
\* ------------------------------------------------------------------------
IdsOf(seq) == {seq[i].id : i \in 1..Len(seq)}

\* the entry came from an Add of this Dashboard, not from the other session
OwnEntry(b) == b.title # OtherTitle

\* nothing is on its way to the tab: no request, no reply, no change event
Quiet(t) ==
    /\ feed[t] = <<>>
    /\ addReqs[t] = <<>> /\ addReplies[t] = <<>>
    /\ delReqs[t] = <<>> /\ delReplies[t] = <<>>

\* C1: in every reachable state the Local Bookmark Collection holds no two
\* entries with the same id, whatever the interleaving of the fetch result,
\* Add completions, Deletes and live insert and delete events.
C1_NoDuplicateIds ==
    \A t \in Tabs : \A i, j \in 1..Len(bookmarks[t]) :
        i # j => bookmarks[t][i].id # bookmarks[t][j].id

\* an entry added by this Dashboard is in a collection of two, and both the
\* reply of its Add and the INSERT change that echoes it have been consumed
C1_Witness ==
    /\ Len(bookmarks[ThisTab]) = 2
    /\ \E i \in 1..2 : OwnEntry(bookmarks[ThisTab][i])
    /\ Quiet(ThisTab)

\* C2: in every reachable state the Local Bookmark Collection is ordered
\* newest first, by created_at descending.
C2_NewestFirst ==
    \A t \in Tabs : \A i, j \in 1..Len(bookmarks[t]) :
        i < j => bookmarks[t][i].created_at >= bookmarks[t][j].created_at

\* a string of whitespace only (the empty string included)
IsBlank(str) == \A i \in 1..Len(str) : str[i] \in Whitespace

\* seq without its entries of the given id, the others in their order
RECURSIVE WithoutId(_, _)
WithoutId(seq, id) ==
    IF seq = <<>> THEN <<>>
    ELSE IF Head(seq).id = id THEN WithoutId(Tail(seq), id)
    ELSE <<Head(seq)>> \o WithoutId(Tail(seq), id)

\* C3: an Add whose title or url is empty after trimming issues no create
\* request and leaves the Local Bookmark Collection unchanged: a step that
\* issues a request or changes the collection or the datastore is not the
\* Add of such a title or url.
C3_BlankAddIsNoOp ==
    [][(addReqs' # addReqs \/ bookmarks' # bookmarks \/ db' # db)
          => \A c \in FormContents :
                (IsBlank(c[1]) \/ IsBlank(c[2]))
                    => ~AddSubmit(ThisTab, c[1], c[2])]_vars

\* the form is shown to a signed-in user over a non-empty collection with
\* nothing in flight: the state a blank Add is made in and leaves as it is
C3_Witness ==
    /\ FormShown(ThisTab)
    /\ user[ThisTab] # Null
    /\ Len(bookmarks[ThisTab]) = MaxRecords
    /\ Quiet(ThisTab)
    /\ out[ThisTab] = Silent

\* an insert reply with an error is consumed in this step
AddFailureConsumed(t) ==
    \E j \in 1..Len(addReplies[t]) :
        /\ addReplies[t][j].error # Null
        /\ addReplies'[t] = Remove(addReplies[t], j)

\* C4: Add inserts nothing before the server confirms: the step that issues
\* the create request leaves the collection as it is, a failed request is
\* shown to the user (alert) and leaves the collection as it is, and every
\* id in the collection is the id of a row the datastore created.
C4_NoInsertBeforeConfirmation ==
    /\ [](\A t \in Tabs : IdsOf(bookmarks[t]) \subseteq 1..clock)
    /\ [][\A t \in Tabs :
            /\ Len(addReqs'[t]) > Len(addReqs[t])
                  => bookmarks'[t] = bookmarks[t]
            /\ AddFailureConsumed(t)
                  => /\ bookmarks'[t] = bookmarks[t]
                     /\ "alert: Failed to add bookmark" \in out'[t]]_vars

\* a failed Add has just been reported over a non-empty collection
C4_Witness ==
    /\ out[ThisTab] = AddFailureOutput
    /\ Len(bookmarks[ThisTab]) >= 1
    /\ addReplies[ThisTab] = <<>>

\* a delete reply with an error is consumed in this step
DeleteFailureConsumed(t) ==
    \E j \in 1..Len(delReplies[t]) :
        /\ delReplies[t][j].error # Null
        /\ delReplies'[t] = Remove(delReplies[t], j)

\* C5: Delete(X) removes X from the collection in the step that issues the
\* delete request, before the datastore has acted on it; a failed delete
\* request leaves the collection as it is (X is not put back) and is only
\* logged.
C5_OptimisticDelete ==
    [][\A t \in Tabs :
          /\ \A id \in 1..clock :
                delReqs'[t] = Append(delReqs[t], id)
                   => /\ id \in IdsOf(bookmarks[t])
                      /\ id \notin IdsOf(bookmarks'[t])
                      /\ bookmarks'[t] = WithoutId(bookmarks[t], id)
                      /\ db' = db
          /\ DeleteFailureConsumed(t)
                => /\ bookmarks'[t] = bookmarks[t]
                   /\ out'[t] = {"console.error: Failed to delete bookmark"}]_vars

\* a failed Delete has just been logged: the row is still in the datastore
\* and no longer in the collection, which holds another entry
C5_Witness ==
    /\ out[ThisTab] = DeleteFailureOutput
    /\ \E r \in db : r.id \notin IdsOf(bookmarks[ThisTab])
    /\ Len(bookmarks[ThisTab]) >= 1
    /\ Quiet(ThisTab)

\* the channel hands its oldest change, of the given type, to a handler
Delivered(t, type) ==
    /\ feed[t] # <<>>
    /\ Head(feed[t]).type = type
    /\ feed'[t] = Tail(feed[t])

\* C6: a live insert event for id X leaves the collection as it is when X
\* is present, and otherwise puts the event's record at the front, the
\* other entries keeping their order.
C6_LiveInsert ==
    [][\A t \in Tabs :
          Delivered(t, "INSERT")
             => LET rec == Head(feed[t]).new IN
                  IF rec.id \in IdsOf(bookmarks[t])
                  THEN bookmarks'[t] = bookmarks[t]
                  ELSE bookmarks'[t] = <<rec>> \o bookmarks[t]]_vars

\* an older row of the other session stands in front of a newer entry: only
\* a live insert event handled after the newer entry was there puts it so
C6_Witness ==
    /\ Len(bookmarks[ThisTab]) = 2
    /\ ~OwnEntry(bookmarks[ThisTab][1])
    /\ bookmarks[ThisTab][1].created_at < bookmarks[ThisTab][2].created_at

\* C7: a live delete event for id X removes X when present, the other
\* entries keeping their order, and leaves the collection as it is when X
\* is absent.
C7_LiveDelete ==
    [][\A t \in Tabs :
          Delivered(t, "DELETE")
             => LET id == Head(feed[t]).old.id IN
                  /\ bookmarks'[t] = WithoutId(bookmarks[t], id)
                  /\ id \notin IdsOf(bookmarks[t])
                        => bookmarks'[t] = bookmarks[t]]_vars

\* a live delete event for an entry of a collection of two is at the handler
C7_Witness ==
    /\ Len(bookmarks[ThisTab]) = 2
    /\ feed[ThisTab] # <<>>
    /\ Head(feed[ThisTab]).type = "DELETE"
    /\ Head(feed[ThisTab]).old.id \in IdsOf(bookmarks[ThisTab])

\* the request carries a session that is valid or that the provider renews
HasValidSession == gSession \in {"valid", "stale"}

\* C8: with valid configuration the gate answers every request: without a
\* valid session "/" is redirected to "/login", with a valid (or renewed)
\* session "/login" is redirected to "/", and every other request passes
\* through.
C8_GateDecision ==
    ValidConfig(envUrl, envKey) =>
        /\ gPc # "threw"
        /\ gPc = "done" =>
              IF ~HasValidSession /\ gPath = "/"
              THEN gReturned.kind = "redirect" /\ gReturned.location = "/login"
              ELSE IF HasValidSession /\ gPath = "/login"
              THEN gReturned.kind = "redirect" /\ gReturned.location = "/"
              ELSE gReturned.kind = "next"

\* a request for "/login" whose session was renewed has been sent to "/"
C8_Witness ==
    /\ gPc = "done"
    /\ ValidConfig(envUrl, envKey)
    /\ gSession = "stale"
    /\ gSetAlls >= 1
    /\ gPath = "/login"
    /\ gReturned = [kind |-> "redirect", location |-> "/", cookies |-> {}]

\* C9: when the provider URL or key is missing, or the URL is malformed, the
\* gate does not throw on any route: it logs a warning, does not contact the
\* identity provider and returns the pass-through response unmodified.
C9_MisconfiguredGatePassesThrough ==
    ~ValidConfig(envUrl, envKey) =>
        /\ gPc # "threw"
        /\ ~gContacted
        /\ gPc = "done" => gWarned /\ gReturned = NextResponse

\* C10: with an available provider client every callback request ends in
\* exactly one redirect: to /login?error=auth without an exchange when the
\* code parameter is absent, to /login?error=auth when the exchange fails,
\* and to the home route when the exchange succeeds.
C10_CallbackRedirects ==
    ValidConfig(envUrl, envKey) =>
        /\ cbPc # "threw"
        /\ cbExchanges <= 1
        /\ Len(cbReturned) = (IF cbPc = "done" THEN 1 ELSE 0)
        /\ cbPc = "done" =>
              IF cbCode = NoCode
              THEN /\ cbExchanges = 0
                   /\ cbReturned[1] =
                        [kind |-> "redirect", location |-> "/login",
                         error |-> "auth"]
              ELSE IF cbSession # Null
              THEN cbReturned[1] =
                        [kind |-> "redirect", location |-> "/", error |-> Null]
              ELSE cbReturned[1] =
                        [kind |-> "redirect", location |-> "/login",
                         error |-> "auth"]

\* a code that the provider does not redeem was exchanged once and the
\* request was sent to /login?error=auth
C10_Witness ==
    /\ cbPc = "done"
    /\ ValidConfig(envUrl, envKey)
    /\ cbCode = <<(<<"b">>)>>
    /\ cbExchanges = 1
    /\ cbSession = Null
    /\ cbReturned = <<LoginError("auth")>>

\* C11: when the provider client is unavailable or misconfigured, a
\* callback request, whatever its query parameters, does not throw and is
\* redirected to /login?error=config (and not to /login?error=auth).
C11_UnavailableClientRedirectsConfig ==
    ~ValidConfig(envUrl, envKey) =>
        /\ cbPc # "threw"
        /\ cbPc = "done" =>
              cbReturned = <<[kind |-> "redirect", location |-> "/login",
                              error |-> "config"]>>

\* C12: with the provider URL or key missing or malformed, no operation of
\* the Dashboard throws (mount, Add, Delete, sign-out, teardown), and the
\* Dashboard ends loading as unauthenticated with an empty collection.
C12_DegradedClientNeverThrows ==
    ~ValidConfig(envUrl, envKey) =>
        \A t \in Tabs :
            /\ out[t] # UncaughtTypeError
            /\ out[t] # UnhandledRejection
            /\ mounted[t] # "crashed"
            /\ pc[t] = "done" =>
                  ~loading[t] /\ user[t] = Null /\ bookmarks[t] = <<>>

\* C13: sign-out ends with a navigation to the login route, made after the
\* invalidation attempt, whether the provider invalidates the session,
\* reports an error or fails outright: once handleSignOut has ended the
\* page has set its location to the login route, it has not done so before
\* the attempt has ended, and it is left only for that location.
C13_SignOutAlwaysNavigates ==
    [][\A t \in Tabs :
        /\ (\E o \in SignOutResults : SignOutResolved(t, o))
              => href'[t] = "/login"
        /\ (href[t] # "/login" /\ href'[t] = "/login")
              => \E o \in SignOutResults : SignOutResolved(t, o)
        /\ (mounted[t] # "login" /\ mounted'[t] = "login")
              => href[t] = "/login"]_vars

\* the Dashboard is gone: unmounted, or left for the login route
TornDown(t) == mounted[t] \in {"unmounted", "login"}

\* C14: on teardown the live subscription is released, and from then on the
\* Local Bookmark Collection never changes: no live event is handed to a
\* handler, and the completions of Add and Delete requests still in flight
\* leave the collection as it is.
C14_TeardownFreezesCollection ==
    /\ [](\A t \in Tabs : TornDown(t) => ~subscribed[t])
    /\ [][\A t \in Tabs :
            TornDown(t) => /\ bookmarks'[t] = bookmarks[t]
                           /\ feed'[t] = feed[t]]_vars

\* the Dashboard was unmounted over a non-empty collection while a live
\* event and the reply of an Add were on their way to it
C14_Witness ==
    /\ mounted[ThisTab] = "unmounted"
    /\ bookmarks[ThisTab] # <<>>
    /\ feed[ThisTab] # <<>>
    /\ addReplies[ThisTab] # <<>>

\* C15: with two mounted tabs of one user past their first fetch and no
\* failed request, once every request is answered and every live event is
\* delivered, both Local Bookmark Collections hold the same set of ids, the
\* ids of the user's rows in the datastore.
C15_TabsConverge ==
    (\A t \in Tabs : Quiet(t)) =>
        \A t \in Tabs :
            IdsOf(bookmarks[t]) = {r.id : r \in {q \in db : q.user_id = Owner}}

\* C16: within one Dashboard the live subscription is established only
\* after the first fetch has completed or failed, so that no live event is
\* applied to the collection before the fetch result.
C16_SubscribedAfterFetch ==
    /\ [](\A t \in Tabs : subscribed[t] => pc[t] = "done")
    /\ [][\A t \in Tabs :
            (Delivered(t, "INSERT") \/ Delivered(t, "DELETE"))
               => pc[t] = "done"]_vars

\* C17: whatever the order in which the result of the first fetch and the
\* live insert and delete events for changes made around the fetch are
\* applied, once all of them have been applied the Local Bookmark
\* Collection holds exactly the ids of the owner's rows in the datastore.
C17_FetchAndEventsCommute ==
    (pc[ThisTab] = "done" /\ feed[ThisTab] = <<>>) =>
        IdsOf(bookmarks[ThisTab]) =
            {r.id : r \in {q \in db : q.user_id = Owner}}

\* C18: after mount the Dashboard eventually stops loading, and never loads
\* again.  Without an Identity it stops loading with an empty collection
\* and without having issued a fetch; with an Identity it issues one fetch,
\* and stops loading with the fetch result as its collection when the fetch
\* succeeded, or with the collection left as it was and the error logged
\* when the fetch failed.
C18_LoadingThenReady ==
    /\ <>(~loading[ThisTab])
    /\ [][\A t \in Tabs :
            /\ ~loading[t] => ~loading'[t]
            /\ pc[t] = "done" => pc'[t] = "done"
            /\ (pc'[t] = "fetchSent" /\ pc[t] # "fetchSent")
                  => pc[t] = "getUser" /\ session # Null
            /\ (loading[t] /\ ~loading'[t])
                  => /\ pc'[t] = "done"
                     /\ user'[t] = session
                     /\ IF session = Null
                        THEN pc[t] = "getUser" /\ bookmarks'[t] = <<>>
                        ELSE /\ pc[t] = "fetchReplied"
                             /\ IF fetchReply[t].error = Null
                                THEN fetchReply[t].data = <<bookmarks'[t]>>
                                ELSE /\ bookmarks'[t] = bookmarks[t]
                                     /\ out'[t] = FetchFailureOutput]_vars

\* the Dashboard of a signed-in user has stopped loading on a failed fetch
\* of a table that holds a row of the user
C18_Witness ==
    /\ ~loading[ThisTab]
    /\ user[ThisTab] = Owner
    /\ out[ThisTab] = FetchFailureOutput
    /\ db # {}

\* the entries of seq that carry the given id
EntriesOf(seq, id) == {i \in 1..Len(seq) : seq[i].id = id}

\* C19: when a successful Add completes, the returned record X is put at
\* the front of the collection if X was absent, and the collection is left
\* as it is if the live insert event for X was applied before; whichever of
\* the reply and the live insert event for X is applied, the collection
\* then holds exactly one entry for X.
C19_AddReplyAndEchoMergeOnce ==
    [][\A t \in Tabs :
          /\ \A j \in 1..Len(addReplies[t]) :
                (/\ addReplies[t][j].error = Null
                 /\ addReplies'[t] = Remove(addReplies[t], j))
                   => LET X == addReplies[t][j].data[1][1] IN
                        /\ IF X.id \in IdsOf(bookmarks[t])
                           THEN bookmarks'[t] = bookmarks[t]
                           ELSE bookmarks'[t] = <<X>> \o bookmarks[t]
                        /\ Cardinality(EntriesOf(bookmarks'[t], X.id)) = 1
          /\ Delivered(t, "INSERT")
                => Cardinality(EntriesOf(bookmarks'[t],
                                         Head(feed[t]).new.id)) = 1]_vars

\* the reply of a successful Add is still on its way while the live insert
\* event for its record has been applied to the collection
C19_Witness ==
    /\ addReplies[ThisTab] # <<>>
    /\ addReplies[ThisTab][1].error = Null
    /\ addReplies[ThisTab][1].data[1][1].id \in IdsOf(bookmarks[ThisTab])
    /\ feed[ThisTab] = <<>>

\* C20: the live subscription is opened only when an Identity exists: when
\* the identity resolution yields no Identity, no subscription is open and
\* the collection stays empty, whatever the change feed emits.
C20_SubscriptionNeedsIdentity ==
    \A t \in Tabs :
        (pc[t] = "done" /\ user[t] = Null) =>
            ~subscribed[t] /\ bookmarks[t] = <<>>

\* the token cookies that the session refresh set during the request, each
\* with the value it was given last
RefreshedCookies == {c \in gReqCookies : c.value > 0}

\* C21: on a pass-through with valid configuration, the response the gate
\* returns carries every token cookie that the session refresh set during
\* the request, also when the refresh set cookies more than once.
C21_PassThroughCarriesRefresh ==
    (/\ gPc = "done"
     /\ ValidConfig(envUrl, envKey)
     /\ gReturned.kind = "next")
        => RefreshedCookies \subseteq gReturned.cookies

\* C24: when the gate refreshes the session during a request that it
\* answers with a redirect, the redirect response carries the token cookies
\* that the refresh set.
C24_RedirectCarriesRefresh ==
    (/\ gPc = "done"
     /\ ValidConfig(envUrl, envKey)
     /\ gReturned.kind = "redirect")
        => RefreshedCookies \subseteq gReturned.cookies

\* C22: once Delete(X) has removed X from the collection, X is absent in
\* every later state of the mounted session, whatever Add reply, live
\* insert echo or live delete event for X is still to come; in particular
\* X is absent for as long as the delete request for X is on its way to the
\* datastore.
C22_DeletedStaysAbsent ==
    \A t \in Tabs : \A i \in 1..Len(delReqs[t]) :
        mounted[t] = "mounted" => delReqs[t][i] \notin IdsOf(bookmarks[t])

\* C23: the gate never produces a redirect loop: with a session that does
\* not change between requests, from any starting route, the request that
\* follows a redirect of the gate is answered with a pass-through response,
\* so that at most one redirect is followed.
C23_NoRedirectLoop ==
    /\ gHops <= 1
    /\ (gPc = "done" /\ gHops >= 1) => gReturned.kind = "next"

\* a renewed session asking for /login has been sent to / and passed there
C23_Witness ==
    /\ gHops = 1
    /\ gPc = "done"
    /\ gSession = "stale"
    /\ gPath = "/"
    /\ gReturned.kind = "next"

====
